---- MODULE Spec2Model ----
(***************************************************************************)
(* MBTI Spy Challenge (src/mbtispy/views.py): one game session kept as a   *)
(* JSON document in Redis, read-modify-written by concurrent HTTP request  *)
(* handlers under a per-session Redis lock that expires after              *)
(* SESSION_LOCK_TIMEOUT seconds.                                           *)
(*                                                                         *)
(* Every request is a process: it validates its input, acquires the lock   *)
(* (or gives up after SESSION_LOCK_WAIT), GETs the session, computes, SETs *)
(* the session and releases the lock. Each of these Redis commands is one  *)
(* atomic step; the Python code between two commands is folded into the    *)
(* step of the command that precedes it.                                   *)
(***************************************************************************)
EXTENDS Integers, Sequences, FiniteSets, TLC

VARIABLES store, lock, expired, tallies, pc, op, arg, loc, resp, keys, code,
          stock, stock0, drawLock, draws, prize

vars == <<store, lock, expired, tallies, pc, op, arg, loc, resp, keys, code,
          stock, stock0, drawLock, draws, prize>>

(* The prize table, the draw lock, and what a draw request holds. *)
prizeVars == <<stock, stock0, drawLock, draws, prize>>

-----------------------------------------------------------------------------
(* Bounds of the model *)

NumProcs == 2

(* How many times a lock may expire in one behaviour. *)
MaxExpiries == 1

(* How many times get_results may run its tally in one behaviour. *)
MaxTallies == 2

(* How many session codes _generate_code can draw. *)
NumCodes == 4

(* How many prizes the table holds, and the largest stock of one prize. *)
NumPrizes == 3

MaxStock == 2

Procs == 1..NumProcs

(* Program constants *)

EXPECTED_PLAYERS == 3

(* "all_spies", the one vote target that is not a player id; player ids    *)
(* start at 1, so 0 is distinct from every id as the string is in Python.  *)
ALL_SPIES == 0

(* The id of the option vote_endpoint (GET) appends, which says that every *)
(* player is a spy: a text that is no player id.                           *)
ALL_SPIES_OPTION == 9

MBTI_LETTERS == {"I", "E", "S", "N", "T", "F", "P", "J"}

(* None, and the empty value: both are falsy where the code tests them.    *)
None == <<>>

(* A message that is None, or a "message" key that is not there. *)
NoMessage == ""

Free == 0

(* The session codes, and the value of "code" before one is generated. *)
Codes == 1..NumCodes

NoCode == 0

(* The code of the session that the requests of a game address. *)
GameCode == 1

-----------------------------------------------------------------------------
(* Request inputs *)

(* Bodies of register_player requests, <<player_name, mbti>> as sent:      *)
(* four names, one of them also with a leading blank, three MBTI values,   *)
(* one of them in lower case and one with a trailing blank, a blank name   *)
(* and a malformed MBTI.                                                   *)
RegisterInputs ==
  { << <<"a">>,      <<"I", "N", "F", "J">> >>,
    << <<" ", "a">>, <<"I", "N", "F", "J">> >>,
    << <<"b">>,      <<"e", "n", "t", "p">> >>,
    << <<"c">>,      <<"I", "S", "T", "P", " ">> >>,
    << <<"c">>,      <<"I", "N", "F", "J">> >>,
    << <<"d">>,      <<"I", "N", "F", "J">> >>,
    << <<" ">>,      <<"I", "N", "F", "J">> >>,
    << <<"d">>,      <<"I", "N", "F", "X">> >> }

(* A registration tried on a session whose roster is complete. *)
LateRegisterInputs ==
  { << <<"b">>, <<"e", "n", "t", "p">> >> }

(* vote_endpoint requests: <<player_id, vote_for>>. *)
VoteInputs ==
  { <<1, 2>>, <<1, 3>>, <<2, 3>>, <<3, 1>>, <<3, ALL_SPIES>>,
    <<2, ALL_SPIES>>, <<2, 2>>, <<4, 1>>, <<1, 4>> }

(* vote_endpoint (GET) requests: the player_id of the URL. *)
OptionInputs == {1, 3, 4}

-----------------------------------------------------------------------------
(* Pure helpers *)

RECURSIVE LStrip(_)
LStrip(s) ==
  IF s # <<>> /\ Head(s) = " " THEN LStrip(Tail(s)) ELSE s

RECURSIVE RStrip(_)
RStrip(s) ==
  IF s # <<>> /\ s[Len(s)] = " " THEN RStrip(SubSeq(s, 1, Len(s) - 1)) ELSE s

Strip(s) == RStrip(LStrip(s))

UpperChar(c) ==
  CASE c = "e" -> "E"
    [] c = "n" -> "N"
    [] c = "t" -> "T"
    [] c = "p" -> "P"
    [] OTHER -> c

Upper(s) == [i \in 1..Len(s) |-> UpperChar(s[i])]

NormalizeOk(value) ==
  LET candidate == Upper(Strip(value))
  IN  /\ value # <<>>
      /\ Len(candidate) = 4
      /\ \A i \in 1..4 : candidate[i] \in MBTI_LETTERS

_normalize_mbti(value) == Upper(Strip(value))

Range(s) == {s[i] : i \in 1..Len(s)}


-----------------------------------------------------------------------------
(* The session document, as create_session writes it *)

NewSession ==
  [ expected_players |-> EXPECTED_PLAYERS,
    status           |-> "registering",
    players          |-> <<>>,
    spy_mbti         |-> None,
    votes            |-> {},
    results          |-> None,
    message          |-> NoMessage ]

(* The session keys of the store: under each code a session or nothing.    *)
LiveKeys(live) == [c \in Codes |-> IF c \in live THEN <<NewSession>> ELSE None]

(* Responses: the HTTP status, the "success" flag, the text, and the       *)
(* payload fields the properties read.                                     *)
Response(http, success, message) ==
  [ http      |-> http,
    success   |-> success,
    message   |-> message,
    player_id |-> 0,
    status    |-> "",
    spy_mbti  |-> None,
    players   |-> <<>>,
    vote_for  |-> -1,
    options   |-> <<>>,
    registered_players |-> -1,
    expected_players   |-> -1,
    results   |-> None ]

NoResponse == Response(0, FALSE, "")

_json_error(message, status) == Response(status, FALSE, message)

_json_pending(message, status) ==
  [Response(200, FALSE, message) EXCEPT !.status = status]

(* A GameStateError, as _redis_guard turns it into a response. *)
GameStateError(message) == _json_error(message, 400)

(* Any other exception leaves _redis_guard uncaught: Django answers 500. *)
UnhandledException(message) == _json_error(message, 500)

(* What a lock-guarded section decides: whether it reaches _save_session,  *)
(* the session it saves, and the response of the request.                  *)
Outcome(save, session, response) ==
  [save |-> save, session |-> session, resp |-> response]

AbortClearingSession(response) == Outcome(TRUE, None, response)

Abort(response) == Outcome(FALSE, None, response)

NoArg == [name |-> <<>>, mbti |-> <<>>, player_id |-> 0, target |-> -1]

-----------------------------------------------------------------------------
(* register_player, inside the lock *)

NameTakenLast(players, name) ==
  Len(players) > 0 /\ players[Len(players)].name = name

NameTaken(players, name) ==
  \E i \in 1..Len(players) : players[i].name = name

RosterOverfull(players, expected) == Len(players) > expected

RosterFull(players, expected) == Len(players) >= expected

register_player(stored, a) ==
  IF stored = None
  THEN Abort(GameStateError("Session does not exist. Please verify the session_code."))
  ELSE
    LET session == stored[1]
        players == session.players
    IN  IF session.status # "registering"
        THEN Abort(GameStateError("Game already started; new players cannot join."))
        ELSE IF NameTaken(players, a.name)
        THEN Abort(GameStateError("Player name already taken. Choose another nickname."))
        ELSE IF RosterFull(players, session.expected_players)
        THEN Abort(GameStateError("Session is full; cannot join."))
        ELSE
          LET player_id == Len(players) + 1
              player    == [id |-> player_id, name |-> a.name,
                            mbti |-> a.mbti, role |-> "unknown"]
              saved     == [session EXCEPT !.players = Append(players, player)]
          IN  Outcome(TRUE, <<saved>>,
                [Response(200, TRUE, "") EXCEPT
                   !.player_id = player_id,
                   !.spy_mbti  = saved.spy_mbti])

-----------------------------------------------------------------------------
(* _assign_spies and registration_status, inside the lock *)

Count(mbtis, mbti) == Cardinality({i \in 1..Len(mbtis) : mbtis[i] = mbti})

_assign_spiesOfLastPlayer(players) == {players[Len(players)].mbti}

_assign_spiesOutsideRoster(players) == {<<"E", "S", "F", "J">>}

(* The values _assign_spies can return: one value, except that            *)
(* random.choice may return any of three distinct values.                  *)
_assign_spies(players) ==
  LET mbtis        == [i \in 1..Len(players) |-> players[i].mbti]
      unique_mbtis == Range(mbtis)
  IN  IF Cardinality(unique_mbtis) = 1 THEN unique_mbtis
      ELSE IF Cardinality(unique_mbtis) = 2
           THEN {m \in unique_mbtis : Count(mbtis, m) = 1}
           ELSE Range(mbtis)

RoleOfSwapped(mbti, spy_mbti) == IF mbti = spy_mbti THEN "detective" ELSE "spy"

RoleOf(mbti, spy_mbti) == IF mbti = spy_mbti THEN "spy" ELSE "detective"

WithRolesUnassigned(players, spy_mbti) == players

WithRoles(players, spy_mbti) ==
  [i \in 1..Len(players) |->
     [players[i] EXCEPT !.role = RoleOf(players[i].mbti, spy_mbti)]]

StatusPayload(session) ==
  [Response(200, TRUE, "") EXCEPT
     !.status   = session.status,
     !.spy_mbti = session.spy_mbti,
     !.players  = session.players]

ReadyStatusAlways(status) == "started"

(* With the roles assigned, a status that is still before readiness moves  *)
(* to started; any other status stays.                                     *)
ReadyStatus(status) ==
  IF status \in {"registering", "confirming"} THEN "started" ELSE status

WaitingForPlayersStarted(session) ==
  Outcome(TRUE, <<[session EXCEPT !.status = "started"]>>,
          [_json_pending("Waiting for all players to register.", session.status)
             EXCEPT !.registered_players = Len(session.players),
                    !.expected_players   = session.expected_players])

(* Fewer players than expected: the pending answer with the two counts;    *)
(* nothing is saved.                                                       *)
WaitingForPlayers(session) ==
  Abort([_json_pending("Waiting for all players to register.", session.status)
           EXCEPT !.registered_players = Len(session.players),
                  !.expected_players   = session.expected_players])

(* The set of outcomes of the section. *)
registration_status(stored) ==
  IF stored = None
  THEN {Abort(_json_error("Session does not exist.", 404))}
  ELSE
    LET session  == stored[1]
        players  == session.players
        expected == session.expected_players
    IN  IF Len(players) < expected
        THEN {WaitingForPlayers(session)}
        ELSE IF Len(players) > expected
        THEN {Abort(GameStateError("Number of registered players exceeds expected count."))}
        ELSE IF session.spy_mbti = None
        THEN IF Len(players) # 3
             THEN {Abort(GameStateError("MBTI Spy Challenge requires exactly three players."))}
             ELSE IF _assign_spies(players) = {}
             THEN {Abort(GameStateError("Unable to determine spy_mbti from the provided MBTI values."))}
             ELSE
               { LET saved == [session EXCEPT
                                 !.spy_mbti = spy_mbti,
                                 !.status   = "started",
                                 !.votes    = {},
                                 !.results  = None,
                                 !.players  = WithRoles(players, spy_mbti)]
                 IN  Outcome(TRUE, <<saved>>, StatusPayload(saved))
                 : spy_mbti \in _assign_spies(players) }
        ELSE
          LET saved == [session EXCEPT
                          !.status  = ReadyStatus(session.status),
                          !.players = WithRoles(players, session.spy_mbti)]
          IN  {Outcome(TRUE, <<saved>>, StatusPayload(saved))}

-----------------------------------------------------------------------------
(* start_vote, inside the lock *)

start_voteFromAnyStatus(stored) ==
  IF stored = None
  THEN Abort(_json_error("Session does not exist.", 404))
  ELSE
    LET session == stored[1]
    IN  IF session.spy_mbti = None
        THEN Abort(_json_pending("Roles have not been assigned yet, voting cannot start.",
                                 session.status))
        ELSE
          LET saved == [session EXCEPT
                          !.votes = {}, !.results = None, !.status = "voting"]
          IN  Outcome(TRUE, <<saved>>,
                      [Response(200, TRUE, "") EXCEPT !.status = "voting"])

start_vote(stored) ==
  IF stored = None
  THEN Abort(_json_error("Session does not exist.", 404))
  ELSE
    LET session == stored[1]
    IN  IF session.spy_mbti = None
        THEN Abort(_json_pending("Roles have not been assigned yet, voting cannot start.",
                                 session.status))
        ELSE IF session.status # "started"
        THEN Abort(_json_pending("Voting cannot be started from the current state.",
                                 session.status))
        ELSE
          LET saved == [session EXCEPT
                          !.votes = {}, !.results = None, !.status = "voting"]
          IN  Outcome(TRUE, <<saved>>,
                      [Response(200, TRUE, "") EXCEPT !.status = "voting"])

-----------------------------------------------------------------------------
(* vote_endpoint (POST): the checks before the lock, and the section *)

HasPlayer(players, id) == \E i \in 1..Len(players) : players[i].id = id

vote_precheckAllowingSelf(stored, player_id, target_id) ==
  IF stored = None
  THEN _json_error("Session does not exist.", 404)
  ELSE
    LET session == stored[1]
        players == session.players
    IN  IF session.status # "voting"
        THEN _json_pending("Voting has not started yet.", session.status)
        ELSE IF ~HasPlayer(players, player_id)
        THEN GameStateError("Voting player does not exist.")
        ELSE IF target_id # ALL_SPIES /\ ~HasPlayer(players, target_id)
        THEN GameStateError("Selected target player does not exist.")
        ELSE NoResponse

(* The response that ends the request before the lock, or NoResponse when  *)
(* the request goes on to the lock. The session is the unlocked read.      *)
vote_precheck(stored, player_id, target_id) ==
  IF stored = None
  THEN _json_error("Session does not exist.", 404)
  ELSE
    LET session == stored[1]
        players == session.players
    IN  IF session.status # "voting"
        THEN _json_pending("Voting has not started yet.", session.status)
        ELSE IF ~HasPlayer(players, player_id)
        THEN GameStateError("Voting player does not exist.")
        ELSE IF target_id # ALL_SPIES /\ ~HasPlayer(players, target_id)
        THEN GameStateError("Selected target player does not exist.")
        ELSE IF player_id = target_id
        THEN GameStateError("Cannot vote for oneself.")
        ELSE NoResponse

(* The other players, in roster order. *)
RECURSIVE Candidates(_, _)
Candidates(players, player_id) ==
  IF players = <<>> THEN <<>>
  ELSE IF Head(players).id # player_id
       THEN <<Head(players).id>> \o Candidates(Tail(players), player_id)
       ELSE Candidates(Tail(players), player_id)

(* vote_endpoint (GET): the vote options of a player, read without lock.  *)
vote_options(stored, player_id) ==
  IF stored = None
  THEN _json_error("Session does not exist.", 404)
  ELSE
    LET session == stored[1]
    IN  IF session.status # "voting"
        THEN _json_pending("Voting has not started yet.", session.status)
        ELSE IF ~HasPlayer(session.players, player_id)
        THEN GameStateError("Requested player does not exist.")
        ELSE [Response(200, TRUE, "") EXCEPT
                !.status    = session.status,
                !.player_id = player_id,
                !.options   = Candidates(session.players, player_id)
                                \o <<ALL_SPIES_OPTION>>]

SetVoteAccumulating(votes, player_id, target_id) ==
  votes \cup {[voter |-> player_id, target |-> target_id]}

(* session["votes"][str(player_id)] = target_id *)
SetVote(votes, player_id, target_id) ==
  {v \in votes : v.voter # player_id} \cup
  {[voter |-> player_id, target |-> target_id]}

vote_endpoint(stored, a) ==
  IF stored = None
  THEN Abort(_json_error("Session does not exist.", 404))
  ELSE
    LET session == stored[1]
    IN  IF session.status # "voting"
        THEN Abort(_json_pending("Voting has not started yet.", session.status))
        ELSE
          LET saved == [session EXCEPT
                          !.votes   = SetVote(session.votes, a.player_id, a.target),
                          !.results = None]
          IN  Outcome(TRUE, <<saved>>,
                      [Response(200, TRUE, "") EXCEPT
                         !.player_id = a.player_id,
                         !.vote_for  = a.target])

-----------------------------------------------------------------------------
(* get_results, inside the lock *)

VoteOf(votes, player_id) ==
  IF \E v \in votes : v.voter = player_id
  THEN (CHOOSE v \in votes : v.voter = player_id).target
  ELSE -1

(* total[vote_target] *)
Total(votes, target) == Cardinality({v \in votes : v.target = target})

Targets(votes) == {v.target : v \in votes}

MaxVotes(votes) ==
  CHOOSE n \in {Total(votes, t) : t \in Targets(votes)} :
    \A t \in Targets(votes) : Total(votes, t) <= n

TopCandidates(votes) ==
  {t \in Targets(votes) : Total(votes, t) = MaxVotes(votes)}

all_spies_mode(players) == \A i \in 1..Len(players) : players[i].role = "spy"

PlayerById(players, id) == players[CHOOSE i \in 1..Len(players) : players[i].id = id]

NamesWhere(players, Test(_)) ==
  {players[i].name : i \in {j \in 1..Len(players) : Test(players[j])}}

IsSpy(player) == player.role = "spy"

IsDetective(player) == player.role = "detective"

AnyPlayerButSpy(player) == player.role # "spy"

AnyPlayer(player) == TRUE

(* What the branches of lines 704-753 leave in winners, losers and         *)
(* message: kind "tally" when control reaches line 755, "pending" when a   *)
(* branch returns _json_pending, "KeyError" when players[target] fails.    *)
(* bound says whether the local variable message was assigned.             *)
TallyOf(kind, winners, losers, bound, message) ==
  [kind |-> kind, winners |-> winners, losers |-> losers,
   bound |-> bound, message |-> message]

TiedWinners(players) == NamesWhere(players, IsSpy)

SpyTargetWinnersSwapped(players) == NamesWhere(players, IsSpy)

SpyTargetWinners(players) == NamesWhere(players, IsDetective)

DetectiveTargetWinnersEveryone(players) == NamesWhere(players, AnyPlayer)

DetectiveTargetWinners(players) == NamesWhere(players, IsSpy)

AllSpiesWinners(players, votes) ==
  NamesWhere(players, LAMBDA p : VoteOf(votes, p.id) = ALL_SPIES)

Tally(session) ==
  LET players == session.players
      votes   == session.votes
      top     == TopCandidates(votes)
      target  == CHOOSE t \in top : TRUE
      issue   == TallyOf("pending", {}, {}, FALSE, "")
  IN  IF all_spies_mode(players)
      THEN TallyOf("tally",
                   AllSpiesWinners(players, votes),
                   NamesWhere(players, LAMBDA p : VoteOf(votes, p.id) # ALL_SPIES),
                   FALSE, "")
      ELSE IF Cardinality(top) > 1 /\ ALL_SPIES \notin top
      THEN TallyOf("tally", TiedWinners(players), NamesWhere(players, IsDetective),
                   TRUE, "Vote tied. Spy team wins.")
      ELSE IF Cardinality(top) > 1 /\ ALL_SPIES \in top
      THEN TallyOf("tally", {}, NamesWhere(players, AnyPlayer),
                   TRUE, "Vote tied with 'all_spies'. No one wins.")
      ELSE IF Cardinality(top) = 1
      THEN IF target = ALL_SPIES THEN issue
           ELSE IF ~HasPlayer(players, target)
           THEN TallyOf("KeyError", {}, {}, FALSE, "")
           ELSE IF PlayerById(players, target).role = "spy"
           THEN TallyOf("tally", SpyTargetWinners(players), NamesWhere(players, IsSpy),
                        TRUE, "Spy eliminated. Detective team wins!")
           ELSE IF PlayerById(players, target).role = "detective"
           THEN TallyOf("tally", DetectiveTargetWinners(players),
                        NamesWhere(players, IsDetective),
                        TRUE, "Spy survives. Spy team wins!")
           ELSE issue
      ELSE issue

(* players_with_votes, filtered by the names in a winners or losers list *)
PlayersWithVotes(session, names) ==
  LET players == session.players
      entry(i) == [player_id |-> players[i].id, name |-> players[i].name,
                   role |-> players[i].role,
                   votes |-> Total(session.votes, players[i].id)]
      RECURSIVE Build(_)
      Build(i) ==
        IF i > Len(players) THEN <<>>
        ELSE IF players[i].name \in names
             THEN <<entry(i)>> \o Build(i + 1)
             ELSE Build(i + 1)
  IN  Build(1)

CompletedStillVoting(session, message, results) ==
  [session EXCEPT
     !.message = message,
     !.results = <<results>>]

CompletedVotesCleared(session, message, results) ==
  [session EXCEPT
     !.status  = "completed",
     !.message = message,
     !.results = <<results>>,
     !.votes   = {}]

(* The session get_results saves: completed, with the message and the      *)
(* results of the tally.                                                   *)
Completed(session, message, results) ==
  [session EXCEPT
     !.status  = "completed",
     !.message = message,
     !.results = <<results>>]

(* get_results gets past its early returns to the tally. *)
ReachesTally(stored) ==
  /\ stored # None
  /\ stored[1].status \in {"voting", "completed"}
  /\ Cardinality(stored[1].votes) = stored[1].expected_players

get_results(stored) ==
  IF stored = None
  THEN Abort(_json_error("Session does not exist.", 404))
  ELSE
    LET session == stored[1]
    IN  IF session.status \notin {"voting", "completed"}
        THEN Abort(_json_pending("Voting has not started yet.", session.status))
        ELSE IF Cardinality(session.votes) # session.expected_players
        THEN Abort(_json_pending("Not all players have voted yet.", session.status))
        ELSE
          LET tally == Tally(session)
          IN  IF tally.kind = "pending"
              THEN Abort(_json_pending("There is some issue with the votes. Please verify.",
                                       session.status))
              ELSE IF tally.kind = "KeyError"
              THEN Abort(UnhandledException("KeyError"))
              ELSE IF ~tally.bound
              THEN Abort(UnhandledException("UnboundLocalError: message"))
              ELSE
                LET results == [winners |-> PlayersWithVotes(session, tally.winners),
                                losers  |-> PlayersWithVotes(session, tally.losers),
                                message |-> NoMessage]
                    saved   == Completed(session, tally.message, results)
                IN  Outcome(TRUE, <<saved>>,
                            [Response(200, TRUE, "") EXCEPT !.results = <<results>>])

-----------------------------------------------------------------------------------------------------------------------------------------------------
(* Requests. A worker process p serves one request at a time:              *)
(*   idle    -> acquire   the handler ran up to "with _session_lock"       *)
(*   acquire -> loaded    lock.acquire() succeeded and _load_session ran   *)
(*   acquire -> done      lock.acquire() gave up: "System is busy"         *)
(*   loaded  -> done      the rest of the section ran, _save_session       *)
(*                        included, and the lock was released              *)
(*   done    -> idle      the response is delivered                        *)
(*   idle    -> generated create_session has its code from _generate_code *)
(*   generated -> done    create_session saved the new session            *)
(* A handler that touches nothing shared before the lock starts at the     *)
(* acquire: its request waits unseen until then.                           *)

(* The prize table: the stock of each Prize row, by id. *)
Prizes == 1..NumPrizes

NoStock == [k \in Prizes |-> 0]

InitialStocks == [Prizes -> 0..MaxStock]

(* The table as it was loaded, no draw lock taken, no draw made. *)
InitPrizes(s) ==
  /\ stock    = s
  /\ stock0   = s
  /\ drawLock = Free
  /\ draws    = 0
  /\ prize    = [p \in Procs |-> None]

Workers ==
  /\ lock  = Free
  /\ expired = 0
  /\ tallies = 0
  /\ pc    = [p \in Procs |-> "idle"]
  /\ op    = [p \in Procs |-> ""]
  /\ arg   = [p \in Procs |-> NoArg]
  /\ loc   = [p \in Procs |-> None]
  /\ resp  = [p \in Procs |-> NoResponse]
  /\ code  = [p \in Procs |-> NoCode]
  /\ keys  = LiveKeys({GameCode})

(* The handler returns its response; the session it read under the lock   *)
(* stays in loc until the response is delivered.                           *)
Answer(p, operation, a, response) ==
  /\ pc'   = [pc EXCEPT ![p] = "done"]
  /\ op'   = [op EXCEPT ![p] = operation]
  /\ arg'  = [arg EXCEPT ![p] = a]
  /\ resp' = [resp EXCEPT ![p] = response]
  /\ UNCHANGED loc

(* A response is delivered before any request takes its next step: the    *)
(* delivery touches nothing shared, so taking it first loses no outcome.   *)
Delivered == \A q \in Procs : pc[q] # "done"

(* The response is delivered; the worker takes the next request. *)
Finish(p) ==
  /\ pc[p] = "done"
  /\ pc'   = [pc EXCEPT ![p] = "idle"]
  /\ op'   = [op EXCEPT ![p] = ""]
  /\ arg'  = [arg EXCEPT ![p] = NoArg]
  /\ loc'  = [loc EXCEPT ![p] = None]
  /\ resp' = [resp EXCEPT ![p] = NoResponse]
  /\ code' = [code EXCEPT ![p] = NoCode]
  /\ prize' = [prize EXCEPT ![p] = None]
  /\ UNCHANGED <<store, lock, expired, tallies, keys, stock, stock0, drawLock, draws>>

(* _session_lock: lock.acquire(blocking=True) succeeds, and the section    *)
(* starts with _load_session.                                              *)
_session_lock(p, operation, a) ==
  /\ Delivered
  /\ lock = Free
  /\ lock' = p
  /\ pc'   = [pc EXCEPT ![p] = "loaded"]
  /\ op'   = [op EXCEPT ![p] = operation]
  /\ arg'  = [arg EXCEPT ![p] = a]
  /\ loc'  = [loc EXCEPT ![p] = store]
  /\ UNCHANGED <<store, expired, tallies, resp, keys, code, prizeVars>>

(* _session_lock: the lock stayed taken for SESSION_LOCK_WAIT seconds. *)
Busy(p, operation, a) ==
  /\ Delivered
  /\ lock # Free
  /\ Answer(p, operation, a, GameStateError("System is busy, please try again."))
  /\ UNCHANGED <<store, lock, expired, tallies, keys, code, prizeVars>>

(* Redis drops the lock key SESSION_LOCK_TIMEOUT seconds after it was set, *)
(* whatever its holder is doing.                                           *)
LockExpire ==
  /\ Delivered
  /\ lock # Free
  /\ expired < MaxExpiries
  /\ lock' = Free
  /\ expired' = expired + 1
  /\ UNCHANGED <<store, tallies, pc, op, arg, loc, resp, keys, code, prizeVars>>

(* How many times the section of request p runs the vote tally: only       *)
(* get_results has one, which it reaches when the session passes the       *)
(* checks of its status and of the number of its votes. tallies counts     *)
(* these runs for the session.                                             *)
TallyCalls(p) ==
  IF op[p] = "get_results" /\ ReachesTally(loc[p]) THEN 1 ELSE 0

(* The rest of the section: the checks, the change, _save_session, and in  *)
(* the finally clause lock.release(), whose LockError (the lock expired or *)
(* is another request's by now) is swallowed.                              *)
SectionKeepingLock(p, o) ==
  /\ Delivered
  /\ store' = IF o.save THEN o.session ELSE store
  /\ tallies' = tallies + TallyCalls(p)
  /\ Answer(p, op[p], arg[p], o.resp)
  /\ UNCHANGED <<lock, expired, keys, code, prizeVars>>

Section(p, o) ==
  /\ Delivered
  /\ store' = IF o.save THEN o.session ELSE store
  /\ lock'  = IF lock = p THEN Free ELSE lock
  /\ tallies' = tallies + TallyCalls(p)
  /\ Answer(p, op[p], arg[p], o.resp)
  /\ UNCHANGED <<expired, keys, code, prizeVars>>

(* register_player: the checks of the request body come before the lock. *)
RegisterArg(player_name, mbti) ==
  [NoArg EXCEPT !.name = Strip(player_name), !.mbti = _normalize_mbti(mbti)]

RegisterInvalid(p, player_name, mbti) ==
  /\ pc[p] = "idle"
  /\ Delivered
  /\ UNCHANGED <<store, lock, expired, tallies, keys, code, prizeVars>>
  /\ \/ /\ player_name = <<>> \/ Len(Strip(player_name)) = 0
        /\ Answer(p, "register_player", NoArg,
                  GameStateError("Player name must not be empty."))
     \/ /\ ~(player_name = <<>> \/ Len(Strip(player_name)) = 0)
        /\ mbti = <<>>
        /\ Answer(p, "register_player", NoArg,
                  GameStateError("MBTI must not be empty."))
     \/ /\ ~(player_name = <<>> \/ Len(Strip(player_name)) = 0)
        /\ mbti # <<>>
        /\ ~NormalizeOk(mbti)
        /\ Answer(p, "register_player", NoArg,
                  GameStateError("MBTI must be a four-letter code such as INFJ."))

RegisterValid(player_name, mbti) ==
  /\ ~(player_name = <<>> \/ Len(Strip(player_name)) = 0)
  /\ mbti # <<>>
  /\ NormalizeOk(mbti)

RegisterLock(p, player_name, mbti) ==
  /\ pc[p] = "idle"
  /\ RegisterValid(player_name, mbti)
  /\ _session_lock(p, "register_player", RegisterArg(player_name, mbti))

RegisterBusy(p, player_name, mbti) ==
  /\ pc[p] = "idle"
  /\ RegisterValid(player_name, mbti)
  /\ Busy(p, "register_player", RegisterArg(player_name, mbti))

RegisterSection(p) ==
  /\ pc[p] = "loaded"
  /\ op[p] = "register_player"
  /\ Section(p, register_player(loc[p], arg[p]))

(* registration_status *)
StatusLock(p) ==
  /\ pc[p] = "idle"
  /\ _session_lock(p, "registration_status", NoArg)

StatusBusy(p) ==
  /\ pc[p] = "idle"
  /\ Busy(p, "registration_status", NoArg)

StatusSection(p) ==
  /\ pc[p] = "loaded"
  /\ op[p] = "registration_status"
  /\ \E o \in registration_status(loc[p]) : Section(p, o)

(* start_vote *)
StartVoteLock(p) ==
  /\ pc[p] = "idle"
  /\ _session_lock(p, "start_vote", NoArg)

StartVoteBusy(p) ==
  /\ pc[p] = "idle"
  /\ Busy(p, "start_vote", NoArg)

StartVoteSection(p) ==
  /\ pc[p] = "loaded"
  /\ op[p] = "start_vote"
  /\ Section(p, start_vote(loc[p]))

(* vote_endpoint (POST): the unlocked _load_session and the checks made on *)
(* it come before the lock.                                                *)
VoteBegin(p, player_id, target_id) ==
  /\ pc[p] = "idle"
  /\ Delivered
  /\ UNCHANGED <<store, lock, expired, tallies, keys, code, prizeVars>>
  /\ LET early == vote_precheck(store, player_id, target_id)
         a     == [NoArg EXCEPT !.player_id = player_id, !.target = target_id]
     IN  IF early # NoResponse
         THEN Answer(p, "vote_endpoint", a, early)
         ELSE /\ pc'  = [pc EXCEPT ![p] = "acquire"]
              /\ op'  = [op EXCEPT ![p] = "vote_endpoint"]
              /\ arg' = [arg EXCEPT ![p] = a]
              /\ UNCHANGED <<loc, resp>>

(* vote_endpoint (GET) takes no lock and writes nothing. *)
VoteOptions(p, player_id) ==
  /\ pc[p] = "idle"
  /\ Delivered
  /\ UNCHANGED <<store, lock, expired, tallies, keys, code, prizeVars>>
  /\ Answer(p, "vote_options", [NoArg EXCEPT !.player_id = player_id],
            vote_options(store, player_id))

VoteLock(p) ==
  /\ pc[p] = "acquire"
  /\ _session_lock(p, op[p], arg[p])

VoteBusy(p) ==
  /\ pc[p] = "acquire"
  /\ Busy(p, op[p], arg[p])

VoteSection(p) ==
  /\ pc[p] = "loaded"
  /\ op[p] = "vote_endpoint"
  /\ Section(p, vote_endpoint(loc[p], arg[p]))

(* get_results *)
ResultsLock(p) ==
  /\ pc[p] = "idle"
  /\ tallies < MaxTallies
  /\ _session_lock(p, "get_results", NoArg)

ResultsBusy(p) ==
  /\ pc[p] = "idle"
  /\ Busy(p, "get_results", NoArg)

ResultsSection(p) ==
  /\ pc[p] = "loaded"
  /\ op[p] = "get_results"
  /\ Section(p, get_results(loc[p]))

-----------------------------------------------------------------------------
(* Registration: a session as create_session left it, the requests of the  *)
(* registration phase.                                                     *)

InitRegistration ==
  /\ store = <<NewSession>>
  /\ Workers
  /\ InitPrizes(NoStock)

NextRegistration ==
  \/ \E p \in Procs, b \in RegisterInputs : RegisterInvalid(p, b[1], b[2])
  \/ \E p \in Procs, b \in RegisterInputs : RegisterLock(p, b[1], b[2])
  \/ \E p \in Procs, b \in RegisterInputs : RegisterBusy(p, b[1], b[2])
  \/ \E p \in Procs : RegisterSection(p)
  \/ \E p \in Procs : StatusLock(p)
  \/ \E p \in Procs : StatusBusy(p)
  \/ \E p \in Procs : StatusSection(p)
  \/ LockExpire
  \/ \E p \in Procs : Finish(p)

SpecRegistration == InitRegistration /\ [][NextRegistration]_vars

-----------------------------------------------------------------------------
(* The game: a session whose third player has just registered, every       *)
(* request of the game.                                                    *)

(* The session after the registrations of a sequence of request bodies. *)
RECURSIVE Registered(_)
Registered(bodies) ==
  IF bodies = <<>> THEN <<NewSession>>
  ELSE LET n == Len(bodies)
       IN  register_player(Registered(SubSeq(bodies, 1, n - 1)),
                           RegisterArg(bodies[n][1], bodies[n][2])).session

(* A roster with two equal MBTI values and one with three. *)
Rosters ==
  { << << <<"a">>, <<"I", "N", "F", "J">> >>,
       << <<"d">>, <<"I", "N", "F", "J">> >>,
       << <<"c">>, <<"I", "S", "T", "P", " ">> >> >>,
    << << <<"a">>, <<"I", "N", "F", "J">> >>,
       << <<"c">>, <<"I", "N", "F", "J">> >>,
       << <<"d">>, <<"I", "N", "F", "J">> >> >> }

InitGame ==
  /\ store \in {Registered(r) : r \in Rosters}
  /\ Workers
  /\ InitPrizes(NoStock)

NextGame ==
  \/ \E p \in Procs, b \in LateRegisterInputs : RegisterLock(p, b[1], b[2])
  \/ \E p \in Procs, b \in LateRegisterInputs : RegisterBusy(p, b[1], b[2])
  \/ \E p \in Procs : RegisterSection(p)
  \/ \E p \in Procs : StatusLock(p)
  \/ \E p \in Procs : StatusBusy(p)
  \/ \E p \in Procs : StatusSection(p)
  \/ \E p \in Procs : StartVoteLock(p)
  \/ \E p \in Procs : StartVoteBusy(p)
  \/ \E p \in Procs : StartVoteSection(p)
  \/ \E p \in Procs, id \in OptionInputs : VoteOptions(p, id)
  \/ \E p \in Procs, b \in VoteInputs : VoteBegin(p, b[1], b[2])
  \/ \E p \in Procs : VoteLock(p)
  \/ \E p \in Procs : VoteBusy(p)
  \/ \E p \in Procs : VoteSection(p)
  \/ \E p \in Procs : ResultsLock(p)
  \/ \E p \in Procs : ResultsBusy(p)
  \/ \E p \in Procs : ResultsSection(p)
  \/ LockExpire
  \/ \E p \in Procs : Finish(p)

SpecGame == InitGame /\ [][NextGame]_vars

-----------------------------------------------------------------------------
(* The tally: a session in voting with any ballot, cast on each kind of    *)
(* roster; get_results requests.                                           *)

TallyRosters ==
  Rosters \cup
  { << << <<"a">>, <<"I", "N", "F", "J">> >>,
       << <<"b">>, <<"e", "n", "t", "p">> >>,
       << <<"c">>, <<"I", "S", "T", "P", " ">> >> >> }

(* The sessions start_vote leaves once registration_status has run on a    *)
(* complete roster.                                                        *)
VotingSessions ==
  { start_vote(o.session).session[1] :
      o \in UNION {registration_status(Registered(r)) : r \in TallyRosters} }

(* Every set of ballots vote_endpoint can leave: each player has not       *)
(* voted (-1), or has voted for another player or for "all_spies".         *)
Ballots ==
  { {[voter |-> v, target |-> f[v]] : v \in {w \in 1..EXPECTED_PLAYERS : f[w] # -1}} :
      f \in {g \in [1..EXPECTED_PLAYERS -> -1..EXPECTED_PLAYERS] :
               \A v \in 1..EXPECTED_PLAYERS : g[v] # v} }

InitTally ==
  /\ store \in {<<[s EXCEPT !.votes = b]>> : s \in VotingSessions, b \in Ballots}
  /\ Workers
  /\ InitPrizes(NoStock)

NextTally ==
  \/ \E p \in Procs : ResultsLock(p)
  \/ \E p \in Procs : ResultsBusy(p)
  \/ \E p \in Procs : ResultsSection(p)
  \/ LockExpire
  \/ \E p \in Procs : Finish(p)

SpecTally == InitTally /\ [][NextTally]_vars

-----------------------------------------------------------------------------
(* A request that stops while it holds the session lock. The worker never  *)
(* reaches the release of _session_lock; Redis drops the lock key when its *)
(* timeout of SESSION_LOCK_TIMEOUT seconds is over.                        *)

CrashInputs ==
  { << <<"a">>, <<"I", "N", "F", "J">> >>,
    << <<"b">>, <<"e", "n", "t", "p">> >> }

(* The worker of request p dies inside the section, before _save_session.  *)
Crash(p) ==
  /\ pc[p] = "loaded"
  /\ \A q \in Procs : pc[q] # "crashed"
  /\ pc' = [pc EXCEPT ![p] = "crashed"]
  /\ UNCHANGED <<store, lock, expired, tallies, op, arg, loc, resp, keys, code, prizeVars>>

HoldTimeoutNever(holder) == FALSE

(* client.lock(..., timeout=SESSION_LOCK_TIMEOUT): a key that is set has a *)
(* time to live.                                                           *)
HoldTimeout(holder) == holder # Free

LockTimeout ==
  /\ HoldTimeout(lock)
  /\ lock' = Free
  /\ UNCHANGED <<store, expired, tallies, pc, op, arg, loc, resp, keys, code, prizeVars>>

InitCrash ==
  /\ store = <<NewSession>>
  /\ Workers
  /\ InitPrizes(NoStock)

NextCrash ==
  \/ \E p \in Procs, b \in CrashInputs : RegisterLock(p, b[1], b[2])
  \/ \E p \in Procs, b \in CrashInputs : RegisterBusy(p, b[1], b[2])
  \/ \E p \in Procs : RegisterSection(p)
  \/ \E p \in Procs : StatusLock(p)
  \/ \E p \in Procs : StatusBusy(p)
  \/ \E p \in Procs : StatusSection(p)
  \/ \E p \in Procs : Crash(p)
  \/ LockTimeout
  \/ \E p \in Procs : Finish(p)

(* Redis expires the lock key; a worker that has not crashed goes on; a    *)
(* client whose request is over sends a readiness check again.             *)
FairCrash ==
  /\ WF_vars(LockTimeout)
  /\ \A p \in Procs :
       /\ WF_vars(RegisterSection(p))
       /\ WF_vars(StatusSection(p))
       /\ WF_vars(Finish(p))
       /\ WF_vars(StatusLock(p))

SpecCrash == InitCrash /\ [][NextCrash]_vars /\ FairCrash

-----------------------------------------------------------------------------
(* create_session. The handler takes no lock: _generate_code asks the      *)
(* store whether a drawn code exists, and _save_session writes the new     *)
(* session under the code later, in a second command.                      *)

(* "expected_players" of the request body; NoExpected when the key is not  *)
(* in the body.                                                            *)
NoExpected == -1

CreateInputs == {NoExpected, 3, 4}

create_sessionValid(expected) == expected = NoExpected \/ expected = 3

CreateInvalid(p, expected) ==
  /\ pc[p] = "idle"
  /\ ~create_sessionValid(expected)
  /\ Answer(p, "create_session", NoArg,
            GameStateError("MBTI Spy Challenge always uses exactly 3 players."))
  /\ UNCHANGED <<store, lock, expired, tallies, keys, code, prizeVars>>

(* client.exists of one drawn code. *)
Exists(c) == keys[c] # None

(* _generate_code returns c: the first drawn code, of at most ten, that    *)
(* does not exist in the store at the time of its draw.                    *)
_generate_code(p, expected, c) ==
  /\ pc[p] = "idle"
  /\ create_sessionValid(expected)
  /\ ~Exists(c)
  /\ pc'   = [pc EXCEPT ![p] = "generated"]
  /\ op'   = [op EXCEPT ![p] = "create_session"]
  /\ code' = [code EXCEPT ![p] = c]
  /\ UNCHANGED <<store, lock, expired, tallies, keys, arg, loc, resp, prizeVars>>

(* _generate_code drew ten codes that all exist: any one live code can be  *)
(* drawn ten times.                                                        *)
CreateExhausted(p, expected) ==
  /\ pc[p] = "idle"
  /\ create_sessionValid(expected)
  /\ \E c \in Codes : Exists(c)
  /\ Answer(p, "create_session", NoArg,
            GameStateError("Failed to create a session. Please try again later."))
  /\ UNCHANGED <<store, lock, expired, tallies, keys, code, prizeVars>>

(* _save_session of the new session under the generated code, and the     *)
(* response that returns the code.                                         *)
create_session(p) ==
  /\ pc[p] = "generated"
  /\ keys' = [keys EXCEPT ![code[p]] = <<NewSession>>]
  /\ Answer(p, "create_session", NoArg,
            [Response(200, TRUE, "") EXCEPT !.expected_players = EXPECTED_PLAYERS])
  /\ UNCHANGED <<store, lock, expired, tallies, code, prizeVars>>

InitCreate ==
  /\ store = <<NewSession>>
  /\ Workers
  /\ InitPrizes(NoStock)

NextCreate ==
  \/ \E p \in Procs, e \in CreateInputs : CreateInvalid(p, e)
  \/ \E p \in Procs, e \in CreateInputs, c \in Codes : _generate_code(p, e, c)
  \/ \E p \in Procs, e \in CreateInputs : CreateExhausted(p, e)
  \/ \E p \in Procs : create_session(p)
  \/ \E p \in Procs : Finish(p)

SpecCreate == InitCreate /\ [][NextCreate]_vars

-----------------------------------------------------------------------------
(* Prize draw: get_prize runs draw_prize inside prize_draw_lock, a MySQL    *)
(* named lock (GET_LOCK) that its connection holds until RELEASE_LOCK.     *)
(*   idle     -> locked    GET_LOCK returned 1                             *)
(*   idle     -> done      GET_LOCK timed out or failed: HTTP 503          *)
(*   locked   -> selected  count() > 0, an index drawn, the row fetched    *)
(*   locked   -> done      count() = 0: PrizeUnavailableError, HTTP 409    *)
(*   selected -> done      the stock updated and refreshed, the            *)
(*                         transaction committed, the lock released        *)

(* The ids of the prizes with stock > 0, ordered by id. *)
PrizeCandidates(s) ==
  SelectSeq([k \in 1..NumPrizes |-> k], LAMBDA k : s[k] > 0)

(* Prize.to_payload, without the name, which no draw changes. *)
to_payload(id, s) == [id |-> id, stock |-> s[id]]

(* The responses of get_prize to the two exceptions. *)
PrizeLockErrorAsUnavailable(message) == _json_error(message, 409)

PrizeLockError(message) == _json_error(message, 503)

PrizeUnavailableError(message) == _json_error(message, 409)

DrawLockIgnored(holder) == TRUE

(* GET_LOCK returns 1 when no other connection holds the lock. *)
DrawLockFree(holder) == holder = Free

ReleaseDrawLock(p) == drawLock' = IF drawLock = p THEN Free ELSE drawLock

prize_draw_lock(p) ==
  /\ pc[p] = "idle"
  /\ DrawLockFree(drawLock)
  /\ drawLock' = p
  /\ pc' = [pc EXCEPT ![p] = "locked"]
  /\ op' = [op EXCEPT ![p] = "get_prize"]
  /\ UNCHANGED <<store, lock, expired, tallies, keys, code, arg, loc, resp>>
  /\ UNCHANGED <<stock, stock0, draws, prize>>

(* GET_LOCK returned 0 after its wait of 5 seconds. *)
DrawBusy(p) ==
  /\ pc[p] = "idle"
  /\ ~DrawLockFree(drawLock)
  /\ Answer(p, "get_prize", NoArg,
            PrizeLockError("Draw system is busy. Please try again later."))
  /\ UNCHANGED <<store, lock, expired, tallies, keys, code, prizeVars>>

(* The GET_LOCK query raised OperationalError. *)
DrawLockFailed(p) ==
  /\ pc[p] = "idle"
  /\ Answer(p, "get_prize", NoArg,
            PrizeLockError("Failed to acquire draw lock"))
  /\ UNCHANGED <<store, lock, expired, tallies, keys, code, prizeVars>>

(* draw_prize: no prize has stock left. *)
DrawUnavailable(p) ==
  /\ pc[p] = "locked"
  /\ Len(PrizeCandidates(stock)) = 0
  /\ ReleaseDrawLock(p)
  /\ Answer(p, "get_prize", NoArg,
            PrizeUnavailableError("No prize with remaining stock is available."))
  /\ UNCHANGED <<store, lock, expired, tallies, keys, code>>
  /\ UNCHANGED <<stock, stock0, draws, prize>>

(* draw_prize: random.randint(0, count - 1) gave index, and the row at     *)
(* that place of the candidates is fetched.                                *)
DrawSelect(p, index) ==
  /\ pc[p] = "locked"
  /\ LET candidates == PrizeCandidates(stock)
         count      == Len(candidates)
     IN  /\ count > 0
         /\ index \in 0..(count - 1)
         /\ prize' = [prize EXCEPT ![p] = <<to_payload(candidates[index + 1], stock)>>]
  /\ pc' = [pc EXCEPT ![p] = "selected"]
  /\ UNCHANGED <<store, lock, expired, tallies, keys, code, op, arg, loc, resp>>
  /\ UNCHANGED <<stock, stock0, drawLock, draws>>

(* The stock that the response reports without refresh_from_db. *)
StockAsFetched(fetched, s) == fetched.stock

(* prize.refresh_from_db(fields=["stock"]) *)
StockRefreshed(fetched, s) == s[fetched.id]

(* draw_prize: the update of the stock, the refresh, the commit; then the  *)
(* release of the lock and the response of get_prize.                      *)
draw_prize(p) ==
  /\ pc[p] = "selected"
  /\ LET fetched == prize[p][1]
     IN  /\ stock' = [stock EXCEPT ![fetched.id] = @ - 1]
         /\ prize' = [prize EXCEPT ![p] =
                        <<[fetched EXCEPT !.stock = StockRefreshed(fetched, stock')]>>]
  /\ draws' = draws + 1
  /\ ReleaseDrawLock(p)
  /\ Answer(p, "get_prize", NoArg, Response(200, TRUE, ""))
  /\ UNCHANGED <<store, lock, expired, tallies, keys, code, stock0>>

InitDraw ==
  /\ store = <<NewSession>>
  /\ Workers
  /\ \E s \in InitialStocks : InitPrizes(s)

NextDraw ==
  \/ \E p \in Procs : prize_draw_lock(p)
  \/ \E p \in Procs : DrawBusy(p)
  \/ \E p \in Procs : DrawLockFailed(p)
  \/ \E p \in Procs : DrawUnavailable(p)
  \/ \E p \in Procs, index \in 0..(NumPrizes - 1) : DrawSelect(p, index)
  \/ \E p \in Procs : draw_prize(p)
  \/ \E p \in Procs : Finish(p)

SpecDraw == InitDraw /\ [][NextDraw]_vars

-----------------------------------------------------------------------------
(* Properties *)

Stored == store[1]

(* Request p has run its section for the named handler and holds its       *)
(* response; Seen(p) is the session it read under the lock.                *)
Answered(p, operation) ==
  /\ pc[p] = "done"
  /\ op[p] = operation
  /\ loc[p] # None

Seen(p) == loc[p][1]

Names(players) == {players[i].name : i \in 1..Len(players)}

PlayerIds(session) == {session.players[i].id : i \in 1..Len(session.players)}

Hidden(session) ==
  {session.players[i].id : i \in {j \in 1..Len(session.players) :
                                    session.players[j].role = "spy"}}

Seekers(session) ==
  {session.players[i].id : i \in {j \in 1..Len(session.players) :
                                    session.players[j].role = "detective"}}

AllHidden(session) == Hidden(session) = PlayerIds(session)

(* One ballot per registered player. *)
CompleteBallot(session) ==
  /\ session.status \in {"voting", "completed"}
  /\ {v.voter : v \in session.votes} = PlayerIds(session)
  /\ Cardinality(session.votes) = Len(session.players)

BallotsFor(session, target) ==
  Cardinality({v \in session.votes : v.target = target})

(* The targets no other target has more ballots than. *)
Leaders(session) ==
  {t \in {v.target : v \in session.votes} :
     \A u \in {v.target : v \in session.votes} :
       BallotsFor(session, u) <= BallotsFor(session, t)}

(* The player ids listed in a winners or losers list, which lists no       *)
(* player twice.                                                           *)
Listed(entries) == {entries[i].player_id : i \in 1..Len(entries)}

ListsExactly(entries, ids) ==
  /\ Listed(entries) = ids
  /\ Len(entries) = Cardinality(ids)

(* The response carries an outcome. *)
HasOutcome(response) ==
  /\ response.http = 200
  /\ response.success
  /\ response.results # None

TieMessages == {"Vote tied. Spy team wins.", "Vote tied with 'all_spies'. No one wins."}

(* C1: the stored roster never holds more than expected_players (3)        *)
(* players, under any interleaving of registrations, and a registration    *)
(* that reads a roster of 3 players under the lock is rejected.            *)
C1_NoOverRegistration ==
  /\ Len(Stored.players) <= EXPECTED_PLAYERS
  /\ \A p \in Procs :
       (Answered(p, "register_player") /\ Len(Seen(p).players) >= EXPECTED_PLAYERS)
         => (~resp[p].success /\ resp[p].http = 400)

C1_Witness ==
  \E p \in Procs :
    /\ Answered(p, "register_player")
    /\ Seen(p).status = "registering"
    /\ Len(Seen(p).players) = EXPECTED_PLAYERS
    /\ arg[p].name \notin Names(Seen(p).players)
    /\ resp[p].message = "Session is full; cannot join."

C3_MutualExclusion ==
  \A p, q \in Procs : (pc[p] = "loaded" /\ pc[q] = "loaded") => p = q

(* C4: a vote that is answered with success never removes the ballot       *)
(* another voter has stored: after two concurrent votes by different       *)
(* voters both succeed, both ballots are stored.                           *)
C4_NoLostVote ==
  [][ \A p \in Procs :
        ( /\ pc[p] = "loaded"
          /\ op[p] = "vote_endpoint"
          /\ pc'[p] = "done"
          /\ resp'[p].success
          /\ Stored.status = "voting" )
        => \A v \in Stored.votes :
             v.voter # arg[p].player_id => v \in store'[1].votes ]_vars

(* C5: spy_mbti is assigned at most once: once it is not None it has the   *)
(* same value in every later state.                                        *)
C5_SpyMbtiAssignedOnce ==
  [][ Stored.spy_mbti # None => store'[1].spy_mbti = Stored.spy_mbti ]_vars

StatusRank(status) ==
  CASE status = "registering" -> 0
    [] status = "started"     -> 1
    [] status = "voting"      -> 2
    [] status = "completed"   -> 3

(* C6: status only moves forward along registering, started (ready),       *)
(* voting, completed; no step takes it to an earlier value.                *)
C6_StatusForward ==
  [][ StatusRank(store'[1].status) >= StatusRank(Stored.status) ]_vars

(* The sentinel is the only leader of a normal-mode ballot. *)
SentinelLeads(session) ==
  ~AllHidden(session) /\ Leaders(session) = {ALL_SPIES}

(* C7: get_results on a session in voting with one ballot per player, the  *)
(* sentinel not being the sole leader in normal mode, computes the         *)
(* outcome, sets status to completed, stores the results and returns them, *)
(* in normal mode and in all-hidden mode.                                  *)
C7_ResultsComplete ==
  \A p \in Procs :
    ( /\ Answered(p, "get_results")
      /\ Seen(p).status = "voting"
      /\ CompleteBallot(Seen(p))
      /\ ~SentinelLeads(Seen(p)) )
    => /\ HasOutcome(resp[p])
       /\ Stored.status = "completed"
       /\ Stored.results = resp[p].results

(* C8: in all-hidden mode with a complete ballot the winners are exactly   *)
(* the players whose ballot is the sentinel and the losers are all other   *)
(* players.                                                                *)
C8_AllHiddenOutcome ==
  \A p \in Procs :
    ( /\ Answered(p, "get_results")
      /\ CompleteBallot(Seen(p))
      /\ AllHidden(Seen(p)) )
    => /\ HasOutcome(resp[p])
       /\ ListsExactly(resp[p].results[1].winners,
                       {v.voter : v \in {w \in Seen(p).votes : w.target = ALL_SPIES}})
       /\ ListsExactly(resp[p].results[1].losers,
                       {v.voter : v \in {w \in Seen(p).votes : w.target # ALL_SPIES}})

(* A player is the only leader of a normal-mode complete ballot. *)
SingleLeader(session) ==
  /\ CompleteBallot(session)
  /\ ~AllHidden(session)
  /\ Cardinality(Leaders(session)) = 1
  /\ Leaders(session) \subseteq PlayerIds(session)

(* C9: in normal mode, when one player alone has the most ballots, the     *)
(* seekers win and the hidden players lose if that player is hidden, the   *)
(* hidden players win and the seekers lose if that player is a seeker, and *)
(* the outcome is not recorded as a tie.                                   *)
C9_SingleLeaderOutcome ==
  \A p \in Procs :
    (Answered(p, "get_results") /\ SingleLeader(Seen(p)))
    => /\ HasOutcome(resp[p])
       /\ LET target  == CHOOSE t \in Leaders(Seen(p)) : TRUE
              results == resp[p].results[1]
          IN  IF target \in Hidden(Seen(p))
              THEN /\ ListsExactly(results.winners, Seekers(Seen(p)))
                   /\ ListsExactly(results.losers, Hidden(Seen(p)))
              ELSE /\ ListsExactly(results.winners, Hidden(Seen(p)))
                   /\ ListsExactly(results.losers, Seekers(Seen(p)))
       /\ Stored.message \notin TieMessages
       /\ Stored.message # NoMessage

C9_Witness ==
  \E p \in Procs :
    /\ Answered(p, "get_results")
    /\ SingleLeader(Seen(p))
    /\ Leaders(Seen(p)) \subseteq Hidden(Seen(p))
    /\ HasOutcome(resp[p])
    /\ Listed(resp[p].results[1].losers) = Leaders(Seen(p))

(* Several targets share the most ballots of a normal-mode complete        *)
(* ballot, and the sentinel is not one of them.                            *)
TiedPlayers(session) ==
  /\ CompleteBallot(session)
  /\ ~AllHidden(session)
  /\ Cardinality(Leaders(session)) > 1
  /\ ALL_SPIES \notin Leaders(session)

(* C10: in normal mode, when several targets share the most ballots and    *)
(* the sentinel is not among them, the hidden players win, the seekers     *)
(* lose, and the outcome returned reports the tie.                         *)
C10_TieOutcome ==
  \A p \in Procs :
    (Answered(p, "get_results") /\ TiedPlayers(Seen(p)))
    => /\ HasOutcome(resp[p])
       /\ ListsExactly(resp[p].results[1].winners, Hidden(Seen(p)))
       /\ ListsExactly(resp[p].results[1].losers, Seekers(Seen(p)))
       /\ resp[p].results[1].message \in TieMessages

(* Several targets share the most ballots of a normal-mode complete        *)
(* ballot, and the sentinel is one of them.                                *)
TiedWithSentinel(session) ==
  /\ CompleteBallot(session)
  /\ ~AllHidden(session)
  /\ Cardinality(Leaders(session)) > 1
  /\ ALL_SPIES \in Leaders(session)

(* C11: in normal mode, when several targets share the most ballots and    *)
(* the sentinel is one of them, the outcome has no winners and every       *)
(* player is a loser.                                                      *)
C11_SentinelTieOutcome ==
  \A p \in Procs :
    (Answered(p, "get_results") /\ TiedWithSentinel(Seen(p)))
    => /\ HasOutcome(resp[p])
       /\ resp[p].results[1].winners = <<>>
       /\ ListsExactly(resp[p].results[1].losers, PlayerIds(Seen(p)))

C11_Witness ==
  \E p \in Procs :
    /\ Answered(p, "get_results")
    /\ TiedWithSentinel(Seen(p))
    /\ HasOutcome(resp[p])
    /\ Len(resp[p].results[1].losers) = EXPECTED_PLAYERS
    /\ Stored.message = "Vote tied with 'all_spies'. No one wins."

(* The two failure shapes of a response: _json_error answers with an HTTP  *)
(* error status and an "error" text, _json_pending with HTTP 200,          *)
(* success false and a "message" text.                                     *)
IsError(response) == response.http >= 400 /\ ~response.success

IsPending(response) == response.http = 200 /\ ~response.success

(* C12: in normal mode, when the sentinel alone has the most ballots,      *)
(* get_results answers with an error that is not the pending shape,        *)
(* carries no winners or losers, and leaves status at voting with results  *)
(* None.                                                                   *)
C12_SentinelLeaderIsError ==
  \A p \in Procs :
    ( /\ Answered(p, "get_results")
      /\ Seen(p).status = "voting"
      /\ CompleteBallot(Seen(p))
      /\ SentinelLeads(Seen(p)) )
    => /\ IsError(resp[p])
       /\ ~IsPending(resp[p])
       /\ resp[p].results = None
       /\ Stored.status = "voting"
       /\ Stored.results = None

(* Roles are assigned and the roster is not all spies. *)
NormalMode(session) ==
  /\ session.status \in {"voting", "completed"}
  /\ ~AllHidden(session)

(* C13: in no reachable state of a normal-mode session is the sentinel the *)
(* only leader of a complete ballot.                                       *)
C13_SentinelNeverLeads ==
  ~(NormalMode(Stored) /\ CompleteBallot(Stored) /\ SentinelLeads(Stored))

(* C14: vote_endpoint accepts the sentinel only when every player is a     *)
(* spy: in a normal-mode session a sentinel vote is not answered with      *)
(* success, and votes never holds the sentinel.                            *)
C14_SentinelOnlyAllHidden ==
  /\ NormalMode(Stored) => \A v \in Stored.votes : v.target # ALL_SPIES
  /\ \A p \in Procs :
       ( /\ Answered(p, "vote_endpoint")
         /\ arg[p].target = ALL_SPIES
         /\ NormalMode(Seen(p)) )
       => ~resp[p].success

(* C15: the vote options of a player in a voting session are every other  *)
(* player, never the player itself, and the sentinel option is among them  *)
(* exactly when every player of the roster is a spy.                       *)
C15_VoteOptions ==
  \A p \in Procs :
    (pc[p] = "done" /\ op[p] = "vote_options" /\ resp[p].success)
    => /\ Range(resp[p].options) \ {ALL_SPIES_OPTION}
            = PlayerIds(Stored) \ {arg[p].player_id}
       /\ (ALL_SPIES_OPTION \in Range(resp[p].options)) <=> AllHidden(Stored)

(* C16: no entry of votes maps a voter to its own player id, and a vote    *)
(* whose target is the voter is rejected before the lock, so that it       *)
(* writes nothing.                                                         *)
C16_NoSelfVote ==
  /\ \A v \in Stored.votes : v.target # v.voter
  /\ \A p \in Procs :
       ( /\ op[p] = "vote_endpoint"
         /\ arg[p].target = arg[p].player_id )
       => /\ pc[p] = "done"
          /\ loc[p] = None
          /\ ~resp[p].success

C16_Witness ==
  \E p \in Procs :
    /\ pc[p] = "done"
    /\ op[p] = "vote_endpoint"
    /\ arg[p].target = arg[p].player_id
    /\ Stored.status = "voting"
    /\ Stored.votes # {}
    /\ resp[p] = GameStateError("Cannot vote for oneself.")

(* The "votes" counts of the entries of a winners or losers list are the   *)
(* ballots the session holds for each listed player.                       *)
CountsBallots(entries, session) ==
  \A i \in 1..Len(entries) :
    entries[i].votes = BallotsFor(session, entries[i].player_id)

(* C17: votes holds at most one entry per player id: a successful vote     *)
(* leaves the voter's entry at the new target, replacing an earlier one,   *)
(* and the outcome get_results computes counts the stored entries only.    *)
C17_LatestVoteOnly ==
  /\ \A v, w \in Stored.votes : v.voter = w.voter => v = w
  /\ \A p \in Procs :
       (Answered(p, "vote_endpoint") /\ resp[p].success)
       => /\ [voter |-> arg[p].player_id, target |-> arg[p].target] \in Stored.votes
          /\ \A v \in Seen(p).votes : v.voter # arg[p].player_id => v \in Stored.votes
          /\ Cardinality(Stored.votes)
               = Cardinality({v.voter : v \in Seen(p).votes} \cup {arg[p].player_id})
  /\ \A p \in Procs :
       (Answered(p, "get_results") /\ HasOutcome(resp[p]))
       => /\ CountsBallots(resp[p].results[1].winners, Seen(p))
          /\ CountsBallots(resp[p].results[1].losers, Seen(p))
          /\ Cardinality(Seen(p).votes) = Len(Seen(p).players)

(* A voter who has voted votes again for another target. *)
C17_Witness ==
  \E p \in Procs :
    /\ Answered(p, "vote_endpoint")
    /\ resp[p].success
    /\ \E v \in Seen(p).votes :
         v.voter = arg[p].player_id /\ v.target # arg[p].target
    /\ Cardinality(Stored.votes) = EXPECTED_PLAYERS

(* C18: a get_results call on a completed session returns the outcome the  *)
(* session holds, which the call that completed it stored and returned,    *)
(* and leaves the session completed with that outcome: any two calls on a  *)
(* completed session return the same winners, losers and message.          *)
C18_ResultsIdempotent ==
  \A p \in Procs :
    (Answered(p, "get_results") /\ Seen(p).status = "completed")
    => /\ HasOutcome(resp[p])
       /\ resp[p].results = Seen(p).results
       /\ Stored.status = "completed"
       /\ Stored.results = Seen(p).results
       /\ Stored.message = Seen(p).message

C18_Witness ==
  \E p \in Procs :
    /\ Answered(p, "get_results")
    /\ Seen(p).status = "completed"
    /\ HasOutcome(resp[p])
    /\ resp[p].results[1].winners # <<>>
    /\ tallies = 2

(* C19: the vote tally runs at most once for a session: get_results on a   *)
(* completed session does not run it again.                                *)
C19_TallyOnce ==
  tallies <= 1

(* The MBTI values of a roster, and the players who hold one of them. *)
Traits(players) == {players[i].mbti : i \in 1..Len(players)}

Holders(players, mbti) == {i \in 1..Len(players) : players[i].mbti = mbti}

(* Request p is the registration_status call that assigned the roles of a  *)
(* roster of three.                                                        *)
AssignedRoles(p) ==
  /\ Answered(p, "registration_status")
  /\ Len(Seen(p).players) = EXPECTED_PLAYERS
  /\ Seen(p).spy_mbti = None
  /\ resp[p].success

(* C20: on a roster of three with fewer than three distinct MBTI values    *)
(* _assign_spies returns one determined value: the common value when all   *)
(* three are equal, the value exactly one player holds when two distinct   *)
(* values appear, in whatever order the players joined.                    *)
C20_RoleAssignerDeterministic ==
  \A p \in Procs :
    (AssignedRoles(p) /\ Cardinality(Traits(Seen(p).players)) < 3)
    => /\ resp[p].spy_mbti \in Traits(Seen(p).players)
       /\ Stored.spy_mbti = resp[p].spy_mbti
       /\ Cardinality(Traits(Seen(p).players)) = 2
            => Cardinality(Holders(Seen(p).players, resp[p].spy_mbti)) = 1

(* Two distinct values, the first player to join holding the lone one. *)
C20_Witness ==
  \E p \in Procs :
    /\ AssignedRoles(p)
    /\ Cardinality(Traits(Seen(p).players)) = 2
    /\ Holders(Seen(p).players, resp[p].spy_mbti) = {1}

(* C21: while spy_mbti is None every player's role is unknown; once it is  *)
(* set, a player's role is spy exactly when the player's mbti equals       *)
(* spy_mbti, and detective otherwise.                                      *)
C21_RolesFollowSpyMbti ==
  \A i \in 1..Len(Stored.players) :
    LET player == Stored.players[i]
    IN  IF Stored.spy_mbti = None
        THEN player.role = "unknown"
        ELSE /\ player.role \in {"spy", "detective"}
             /\ player.role = "spy" <=> player.mbti = Stored.spy_mbti

(* Roles are assigned on a roster of three distinct values. *)
C21_Witness ==
  /\ Stored.spy_mbti # None
  /\ Cardinality(Traits(Stored.players)) = 3
  /\ Cardinality(Hidden(Stored)) = 1
  /\ Cardinality(Seekers(Stored)) = 2

(* C22: registration_status on a session with fewer than expected_players *)
(* players answers pending with the number of registered players and the   *)
(* expected number, and writes nothing to the session.                     *)
C22_PendingStatusChangesNothing ==
  [][ \A p \in Procs :
        ( /\ pc[p] = "loaded"
          /\ op[p] = "registration_status"
          /\ pc'[p] = "done"
          /\ Len(Seen(p).players) < Seen(p).expected_players )
        => /\ store' = store
           /\ IsPending(resp'[p])
           /\ resp'[p].registered_players = Len(Seen(p).players)
           /\ resp'[p].expected_players = EXPECTED_PLAYERS ]_vars

(* A second poll of a roster of two. *)
C22_Witness ==
  \E p \in Procs :
    /\ Answered(p, "registration_status")
    /\ IsPending(resp[p])
    /\ resp[p].registered_players = 2
    /\ Len(Stored.players) = 2
    /\ Stored.status = "registering"

(* C23: registration_status on a session whose spy_mbti is set returns     *)
(* that spy_mbti and the roles the players have, and saves the session as  *)
(* it read it: status, votes and results stay, in started, voting and      *)
(* completed alike.                                                        *)
C23_StatusIdempotent ==
  \A p \in Procs :
    (Answered(p, "registration_status") /\ Seen(p).spy_mbti # None)
    => /\ resp[p].success
       /\ resp[p].spy_mbti = Seen(p).spy_mbti
       /\ resp[p].players = Seen(p).players
       /\ resp[p].status = Seen(p).status
       /\ store = loc[p]

(* A poll of a session in voting that holds votes. *)
C23_Witness ==
  \E p \in Procs :
    /\ Answered(p, "registration_status")
    /\ Seen(p).status = "voting"
    /\ Seen(p).votes # {}
    /\ store = loc[p]

(* The session start_vote accepts: roles assigned, status started. *)
ReadyToVote(session) ==
  session.spy_mbti # None /\ session.status = "started"

(* C24: start_vote succeeds only on a session whose spy_mbti is set and     *)
(* whose status is started, and then saves status voting, no votes and     *)
(* results None; on any other session it fails and writes nothing.         *)
C24_StartVoteGuard ==
  [][ \A p \in Procs :
        (pc[p] = "loaded" /\ op[p] = "start_vote" /\ pc'[p] = "done")
        => IF ReadyToVote(Seen(p))
           THEN /\ resp'[p].success
                /\ store'[1].status = "voting"
                /\ store'[1].votes = {}
                /\ store'[1].results = None
                /\ store'[1].players = Seen(p).players
                /\ store'[1].spy_mbti = Seen(p).spy_mbti
           ELSE /\ ~resp'[p].success
                /\ store' = store ]_vars

(* start_vote has started the vote. *)
C24_Witness ==
  \E p \in Procs :
    /\ Answered(p, "start_vote")
    /\ resp[p].success
    /\ ReadyToVote(Seen(p))
    /\ Stored.status = "voting"

(* C25: the i-th stored player has id i, a successful registration returns *)
(* the number of players it found plus one, and a stored player keeps its  *)
(* place and its id: no step removes a player or gives a player's id to    *)
(* another player.                                                         *)
C25_StableSequentialIds ==
  [][ /\ \A i \in 1..Len(Stored.players) : Stored.players[i].id = i
      /\ \A p \in Procs :
           ( /\ pc[p] = "loaded"
             /\ op[p] = "register_player"
             /\ pc'[p] = "done"
             /\ resp'[p].success )
           => resp'[p].player_id = Len(Seen(p).players) + 1
      /\ \A i \in 1..Len(Stored.players) :
           /\ i <= Len(store'[1].players)
           /\ store'[1].players[i].id = Stored.players[i].id
           /\ store'[1].players[i].name = Stored.players[i].name ]_vars

(* C26: a request that cannot acquire the session lock within the wait     *)
(* timeout is answered with HTTP 503, not with the 4xx of a game rule or   *)
(* validation error, and leaves the session as it was.                     *)
C26_BusyIs503 ==
  [][ \A p \in Procs :
        ( /\ pc[p] # "done"
          /\ pc'[p] = "done"
          /\ resp'[p].message = "System is busy, please try again." )
        => /\ resp'[p].http = 503
           /\ store' = store ]_vars

(* C27: a vote request (options or ballot) that names a player id absent    *)
(* from the roster of the stored session ends with the not-found outcome,  *)
(* HTTP 404, and writes nothing to the store.                              *)
C27_UnknownPlayerIs404 ==
  [][ \A p \in Procs :
        ( /\ pc[p] = "idle"
          /\ pc'[p] = "done"
          /\ op'[p] \in {"vote_endpoint", "vote_options"}
          /\ Stored.status = "voting"
          /\ ~HasPlayer(Stored.players, arg'[p].player_id) )
        => /\ resp'[p].http = 404
           /\ store' = store ]_vars

(* C28: a request that ends in a failure or pending outcome (validation     *)
(* error, wrong status, name taken, roster full, not found, not enough     *)
(* ballots) leaves the stored session exactly as it was: the step that     *)
(* produces such a response writes nothing.                                *)
C28_FailureWritesNothing ==
  [][ \A p \in Procs :
        ( /\ pc[p] # "done"
          /\ pc'[p] = "done"
          /\ ~resp'[p].success )
        => store' = store ]_vars

(* A get_results section ended pending for lack of ballots, and the store  *)
(* holds the session that the section read.                                *)
C28_Witness ==
  \E p \in Procs :
    /\ Answered(p, "get_results")
    /\ IsPending(resp[p])
    /\ resp[p].message = "Not all players have voted yet."
    /\ store = loc[p]

(* C29: the session lock is released on every exit path of a guarded       *)
(* section: a request that has returned (success, pending, not found,      *)
(* validation error or unexpected exception) does not hold the lock.       *)
C29_LockReleased ==
  \A p \in Procs : pc[p] \in {"idle", "done"} => lock # p

(* A get_results section ended with an unhandled exception, and the lock   *)
(* is free for the next request.                                           *)
C29_Witness ==
  \E p \in Procs :
    /\ Answered(p, "get_results")
    /\ resp[p].http = 500
    /\ lock = Free

(* C30: create_session returns a fresh unique code: no session lives under *)
(* the code at the moment the new session is written, so a call never      *)
(* overwrites a session that another call created, and two calls whose     *)
(* responses are outstanding together hold different codes.                *)
C30_FreshUniqueCode ==
  [][ \A p \in Procs :
        ( /\ pc[p] = "generated"
          /\ pc'[p] = "done"
          /\ resp'[p].success )
        => /\ ~Exists(code[p])
           /\ \A q \in Procs \ {p} :
                (pc'[q] = "done" /\ resp'[q].success) => code'[q] # code'[p] ]_vars

(* The units in a prize table. *)
RECURSIVE UnitsUpTo(_, _)
UnitsUpTo(s, n) == IF n = 0 THEN 0 ELSE s[n] + UnitsUpTo(s, n - 1)

Units(s) == UnitsUpTo(s, NumPrizes)

(* Request p ends a draw with success in this step. *)
DrawSucceeds(p) ==
  /\ op[p] = "get_prize"
  /\ pc[p] # "done"
  /\ pc'[p] = "done"
  /\ resp'[p].success

(* Request p ends a draw in this step with the given HTTP status. *)
DrawFails(p, http) ==
  /\ pc[p] # "done"
  /\ pc'[p] = "done"
  /\ op'[p] = "get_prize"
  /\ resp'[p].http = http

(* C31: prize drawing is atomic under concurrent callers: no stock is ever *)
(* negative, the successful draws never exceed the initial stock, and each *)
(* successful draw is one decrement by 1 of a prize whose stock was        *)
(* positive; the stock changes in no other step.                           *)
C31_AtomicDraw ==
  [][ /\ \A k \in Prizes : stock[k] >= 0 /\ stock'[k] >= 0
      /\ draws' <= Units(stock0)
      /\ draws' = Units(stock0) - Units(stock')
      /\ \A p \in Procs :
           DrawSucceeds(p) =>
             \E k \in Prizes :
               /\ stock[k] > 0
               /\ prize[p][1].id = k
               /\ stock' = [stock EXCEPT ![k] = @ - 1]
      /\ stock' # stock => \E p \in Procs : DrawSucceeds(p) ]_vars

(* The draws have emptied a table of three units or more; one request has *)
(* its prize and the other holds the draw lock after it.                   *)
C31_Witness ==
  /\ draws >= 3
  /\ draws = Units(stock0)
  /\ \E p, q \in Procs :
       /\ p # q
       /\ pc[p] = "done" /\ op[p] = "get_prize" /\ resp[p].success
       /\ pc[q] = "locked"

(* C32: a draw made when no prize has stock fails with the pool-exhausted  *)
(* outcome, HTTP 409, and a draw that cannot take the draw lock fails with *)
(* the lock outcome, HTTP 503, which is distinct; neither changes a stock. *)
C32_DrawFailures ==
  [][ \A p \in Procs :
        /\ ( pc[p] = "locked" /\ Units(stock) = 0 /\ pc'[p] # pc[p] )
             => DrawFails(p, 409) /\ stock' = stock
        /\ ( pc[p] = "idle" /\ pc'[p] = "done" /\ op'[p] = "get_prize" )
             => DrawFails(p, 503) /\ stock' = stock
        /\ DrawFails(p, 409) => pc[p] = "locked" /\ Units(stock) = 0
        /\ DrawFails(p, 503) => pc[p] = "idle" ]_vars

(* One request found the table empty while the other was refused the lock. *)
C32_Witness ==
  \E p, q \in Procs :
    /\ pc[p] = "done" /\ op[p] = "get_prize" /\ resp[p].http = 409
    /\ pc[q] = "done" /\ op[q] = "get_prize" /\ resp[q].http = 503
    /\ resp[q].message = "Draw system is busy. Please try again later."
    /\ stock = stock0

(* C33: a successful draw returns a prize that had stock > 0 before the    *)
(* draw, reduces the stock of that prize by exactly 1, reports the reduced *)
(* stock, and leaves the stock of every other prize as it was.             *)
C33_DrawEffect ==
  [][ \A p \in Procs :
        DrawSucceeds(p) =>
          LET drawn == prize'[p][1]
          IN  /\ stock[drawn.id] > 0
              /\ stock'[drawn.id] = stock[drawn.id] - 1
              /\ drawn.stock = stock'[drawn.id]
              /\ \A k \in Prizes \ {drawn.id} : stock'[k] = stock[k] ]_vars

(* A request has drawn prize 2 of a table in which every prize had stock,  *)
(* and holds the reduced stock.                                            *)
C33_Witness ==
  \E p \in Procs :
    /\ pc[p] = "done" /\ op[p] = "get_prize" /\ resp[p].success
    /\ \A k \in Prizes : stock0[k] = MaxStock
    /\ draws = 1
    /\ prize[p] = <<to_payload(2, stock)>>
    /\ stock[2] = MaxStock - 1

(* C34: the session lock cannot be held forever: when a request has        *)
(* stopped while it holds the lock of a session, the hold timeout frees    *)
(* the lock and a later request on the same code acquires it.              *)
C34_CrashedHolderFreed ==
  \A p \in Procs :
    (pc[p] = "crashed" /\ lock = p) ~> (\E q \in Procs \ {p} : lock = q)

(* A request runs its section under the lock while the request that held   *)
(* the lock before it lies crashed.                                        *)
C34_Witness ==
  \E p, q \in Procs :
    /\ pc[p] = "crashed"
    /\ pc[q] = "loaded"
    /\ lock = q

(* The players of a sequence that have the given role. *)
WithRole(players, role) == {i \in 1..Len(players) : players[i].role = role}

(* C35: when the roster holds three pairwise distinct MBTI values, the     *)
(* role assignment takes as spy_mbti one of the three values of the roster *)
(* and never a value outside it, so exactly one player becomes spy and the *)
(* other two become detectives.                                            *)
C35_ThreeDistinctOneHidden ==
  \A p \in Procs :
    (AssignedRoles(p) /\ Cardinality(Traits(Seen(p).players)) = 3)
    => /\ resp[p].spy_mbti \in Traits(Seen(p).players)
       /\ Cardinality(WithRole(resp[p].players, "spy")) = 1
       /\ Cardinality(WithRole(resp[p].players, "detective")) = 2
       /\ \A i \in 1..Len(resp[p].players) :
            /\ resp[p].players[i].mbti = Seen(p).players[i].mbti
            /\ resp[p].players[i].role = "spy"
                 <=> resp[p].players[i].mbti = resp[p].spy_mbti

(* Three distinct values, and random.choice took the value of the second   *)
(* player to join.                                                         *)
C35_Witness ==
  \E p \in Procs :
    /\ AssignedRoles(p)
    /\ Cardinality(Traits(Seen(p).players)) = 3
    /\ WithRole(resp[p].players, "spy") = {2}

(* C36: in every state in which spy_mbti is set, the number of players     *)
(* with role spy is exactly 1 (normal mode) or exactly 3 (every player a   *)
(* spy); it is never 0 and never 2.                                        *)
C36_OneOrThreeHidden ==
  Stored.spy_mbti # None
  => /\ Cardinality(WithRole(Stored.players, "spy")) \in {1, 3}
     /\ Cardinality(WithRole(Stored.players, "spy"))
          + Cardinality(WithRole(Stored.players, "detective")) = EXPECTED_PLAYERS
     /\ Cardinality(WithRole(Stored.players, "spy")) = 3
          <=> Cardinality(Traits(Stored.players)) = 1

(* The roles are assigned and every player is a spy. *)
C36_Witness ==
  /\ Stored.spy_mbti # None
  /\ Stored.status = "started"
  /\ WithRole(Stored.players, "spy") = 1..EXPECTED_PLAYERS

C38_CompletedIsFinal ==
  [][ Stored.status = "completed"
      => /\ store'[1].status   = "completed"
         /\ store'[1].players  = Stored.players
         /\ store'[1].spy_mbti = Stored.spy_mbti
         /\ store'[1].votes    = Stored.votes
         /\ store'[1].results  = Stored.results ]_vars

(* The id, name and MBTI value of each player, in roster order. *)
Identities(players) ==
  [i \in 1..Len(players) |->
     <<players[i].id, players[i].name, players[i].mbti>>]

(* C39: the roster is frozen once it is full: from the first state in      *)
(* which the session holds expected_players players, the sequence of id,   *)
(* name and MBTI value of its players is the same in every later state,    *)
(* also while status is still registering.                                 *)
C39_FullRosterFrozen ==
  [][ Len(Stored.players) = Stored.expected_players
      => Identities(store'[1].players) = Identities(Stored.players) ]_vars

(* The player ids of a winners or losers list. *)
IdsOf(entries) == {entries[i].player_id : i \in 1..Len(entries)}

(* C40: in every outcome that get_results stores, winners and losers are   *)
(* disjoint and together hold every registered player exactly once, in     *)
(* normal mode (tie, tie with the sentinel, single leader) and when every  *)
(* player is a spy; the name lists of the tally of a complete ballot are   *)
(* such a partition in every mode.                                         *)
C40_WinnersLosersPartition ==
  /\ Stored.results # None
     => LET winners == Stored.results[1].winners
            losers  == Stored.results[1].losers
        IN  /\ IdsOf(winners) \cap IdsOf(losers) = {}
            /\ IdsOf(winners) \cup IdsOf(losers) = PlayerIds(Stored)
            /\ Len(winners) + Len(losers) = Len(Stored.players)
            /\ \A p \in Procs :
                 (Answered(p, "get_results") /\ resp[p].success)
                 => resp[p].results = Stored.results
  /\ \A p \in Procs :
       ( /\ Answered(p, "get_results")
         /\ ReachesTally(loc[p])
         /\ Tally(Seen(p)).kind = "tally" )
       => /\ Tally(Seen(p)).winners \cap Tally(Seen(p)).losers = {}
          /\ Tally(Seen(p)).winners \cup Tally(Seen(p)).losers
               = Names(Seen(p).players)

(* A stored outcome of the single-leader branch: the detective with the    *)
(* most ballots loses with the other detective, the spy wins.              *)
C40_Witness ==
  /\ Stored.results # None
  /\ Stored.message = "Spy survives. Spy team wins!"
  /\ Len(Stored.results[1].winners) = 1
  /\ Len(Stored.results[1].losers) = 2

TypeOK ==
  /\ tallies \in 0..(MaxTallies + NumProcs)
  /\ lock \in {Free} \cup Procs
  /\ \A p \in Procs : pc[p] \in {"idle", "acquire", "loaded", "generated", "locked", "selected", "crashed", "done"}
  /\ Len(store) = 1
  /\ keys \in [Codes -> {None, <<NewSession>>}]
  /\ code \in [Procs -> Codes \cup {NoCode}]
  /\ stock \in [Prizes -> -1..MaxStock]
  /\ drawLock \in {Free} \cup Procs
====
